---- MODULE Spec2Model ----
(***************************************************************************)
(* yy::DoubleBuffer<T> (include/DoubleBuffer.hpp): one writer thread, any  *)
(* number of reader threads, two slots with a per-slot reader count.       *)
(* Every atomic operation of read() and write() is one step; the copy of a *)
(* T (which is not atomic) is one step per part of the value.  Atomics are *)
(* interleaved sequentially consistently, except in SpecRelaxed, which     *)
(* adds the order that the relaxed fetch_add of read() allows.             *)
(***************************************************************************)
EXTENDS Integers, FiniteSets, Sequences, TLC

\* ---- bounds of the model ----
NumReaders == 1
MaxWrites == 2
NumParts == 2
MaxVal == 1

Readers == 1 .. NumReaders
Slots == {0, 1}
Parts == 1 .. NumParts
Vals == 0 .. MaxVal
NoVal == -1

\* the constructor's argument: yy::DoubleBuffer<TestData> buffer{TestData(0)};
InitValue == 0

\* a T all of whose parts hold v, like TestData(v)
TestData(v) == [p \in Parts |-> v]

VARIABLES
  data,           \* buffers_[s].data, part by part
  ref_count,      \* buffers_[s].ref_count (every decrement follows its increment,
                  \* so the unsigned count never wraps)
  read_buffer_,   \* the slot read_buffer_ points to
  write_buffer_,  \* the slot write_buffer_ points to
  wpc,            \* writer's position in write()
  new_value,      \* write()'s argument
  wi,             \* next part the data store of write() assigns
  prev_read_ptr,  \* write()'s local
  rpc,            \* each reader's position in read()
  read_ptr,       \* read()'s local
  value,          \* read()'s local, part by part
  ci,             \* next part the copy of read() copies
  terminated,     \* std::terminate was called
  \* history
  nwrites,        \* write() calls started
  written,        \* arguments of the write() calls started
  authv,          \* InitValue, or the argument of the last published write
  seen,           \* values that were authoritative during the read() call
  quiet,          \* no write() call was in progress since the read() call began
  overlap,        \* a writer step happened since the read() call's first load
  retries,        \* times the read() call went round its loop again
  pubs,           \* publishes since the read() call's first load
  last            \* largest number of a whole value the reader's earlier read()
                  \* calls returned (recorded when the k-th write's argument is k)

vars == <<data, ref_count, read_buffer_, write_buffer_, wpc, new_value, wi,
          prev_read_ptr, rpc, read_ptr, value, ci, terminated, nwrites,
          written, authv, seen, quiet, overlap, retries, pubs,
          last>>

wvars == <<wpc, new_value, wi, prev_read_ptr>>
rvars == <<rpc, read_ptr, value, ci>>
hist == <<nwrites, written, authv, seen, quiet, overlap, retries, pubs,
          last>>

\* ---- construction ----

\* buffers_[0].data = init_value; buffers_[1].data = init_value;
BuffersCtorMutant(v) == [s \in Slots |-> IF s = 1 THEN TestData(v) ELSE TestData(NoVal)]
BuffersCtor(v) == [s \in Slots |-> TestData(v)]

Init ==
  /\ data = BuffersCtor(InitValue)
  /\ ref_count = [s \in Slots |-> 0]
  /\ read_buffer_ = 0
  /\ write_buffer_ = 1
  /\ wpc = "idle"
  /\ new_value = NoVal
  /\ wi = 1
  /\ prev_read_ptr = 0
  /\ rpc = [r \in Readers |-> "idle"]
  /\ read_ptr = [r \in Readers |-> 0]
  /\ value = [r \in Readers |-> TestData(NoVal)]
  /\ ci = [r \in Readers |-> 1]
  /\ terminated = FALSE
  /\ nwrites = 0
  /\ written = {}
  /\ authv = InitValue
  /\ seen = [r \in Readers |-> {}]
  /\ quiet = [r \in Readers |-> FALSE]
  /\ overlap = [r \in Readers |-> FALSE]
  /\ retries = [r \in Readers |-> 0]
  /\ pubs = [r \in Readers |-> 0]
  /\ last = [r \in Readers |-> 0]

\* ---- history bookkeeping of a writer step ----

\* the read() call of r has done its first load and has not returned
PastFirstLoad(r) == rpc[r] \notin {"idle"} /\ ~(rpc[r] = "load" /\ retries[r] = 0)

WriterStepSeen == [r \in Readers |-> overlap[r] \/ PastFirstLoad(r)]

\* ---- write() ----

\* void write(const T &new_value) is called
WriteCall(v) ==
  /\ ~terminated
  /\ wpc = "idle"
  /\ nwrites < MaxWrites
  /\ wpc' = "store"
  /\ new_value' = v
  /\ wi' = 1
  /\ nwrites' = nwrites + 1
  /\ written' = written \cup {v}
  /\ quiet' = [r \in Readers |-> FALSE]
  /\ overlap' = WriterStepSeen
  /\ UNCHANGED <<data, ref_count, read_buffer_, write_buffer_, prev_read_ptr,
                 rvars, terminated, authv, seen, retries,
                 pubs, last>>

\* write_buffer_->data = new_value;   one part per step
WriteStore ==
  /\ ~terminated
  /\ wpc = "store"
  /\ data' = [data EXCEPT ![write_buffer_][wi] = new_value]
  /\ wi' = wi + 1
  /\ wpc' = IF wi = NumParts THEN "publish" ELSE "store"
  /\ overlap' = WriterStepSeen
  /\ UNCHANGED <<ref_count, read_buffer_, write_buffer_, new_value,
                 prev_read_ptr, rvars, terminated, nwrites,
                 written, authv, seen, quiet, retries,
                 pubs, last>>

\* prev_read_ptr = read_buffer_.exchange(write_buffer_, acq_rel);
WritePublishMutant ==
  /\ ~terminated
  /\ wpc = "publish"
  /\ prev_read_ptr' = read_buffer_
  /\ wpc' = "wait"
  /\ authv' = new_value
  /\ seen' = [r \in Readers |-> IF rpc[r] # "idle" THEN seen[r] \cup {new_value}
                                                   ELSE seen[r]]
  /\ overlap' = WriterStepSeen
  /\ pubs' = [r \in Readers |-> IF PastFirstLoad(r) THEN pubs[r] + 1 ELSE pubs[r]]
  /\ UNCHANGED <<data, ref_count, read_buffer_, write_buffer_, new_value, wi, rvars,
                 terminated, nwrites, written, quiet, retries, last>>

WritePublish ==
  /\ ~terminated
  /\ wpc = "publish"
  /\ prev_read_ptr' = read_buffer_
  /\ read_buffer_' = write_buffer_
  /\ wpc' = "wait"
  /\ authv' = new_value
  /\ seen' = [r \in Readers |-> IF rpc[r] # "idle" THEN seen[r] \cup {new_value}
                                                   ELSE seen[r]]
  /\ overlap' = WriterStepSeen
  /\ pubs' = [r \in Readers |-> IF PastFirstLoad(r) THEN pubs[r] + 1 ELSE pubs[r]]
  /\ UNCHANGED <<data, ref_count, write_buffer_, new_value, wi, rvars,
                 terminated, nwrites, written, quiet, retries, last>>

\* while (prev_read_ptr->ref_count.load(acquire) != 0): one load and test;
\* the loop ends and write() returns when the count is 0 (its argument and
\* locals are gone then)
WriteWaitNoWait ==
  /\ ~terminated
  /\ wpc = "wait"
  /\ wpc' = "idle" /\ new_value' = NoVal /\ wi' = 1 /\ prev_read_ptr' = 0
  /\ overlap' = WriterStepSeen
  /\ UNCHANGED <<data, ref_count, read_buffer_, write_buffer_, rvars,
                 terminated, nwrites, written, authv, seen, quiet,
                 retries,
                 pubs, last>>

WriteWait ==
  /\ ~terminated
  /\ wpc = "wait"
  /\ IF ref_count[prev_read_ptr] # 0
       THEN wpc' = "yield" /\ UNCHANGED <<new_value, wi, prev_read_ptr>>
       ELSE wpc' = "idle" /\ new_value' = NoVal /\ wi' = 1 /\ prev_read_ptr' = 0
  /\ overlap' = WriterStepSeen
  /\ UNCHANGED <<data, ref_count, read_buffer_, write_buffer_, rvars,
                 terminated, nwrites, written, authv, seen, quiet,
                 retries,
                 pubs, last>>

\* std::this_thread::yield();
WriteYield ==
  /\ ~terminated
  /\ wpc = "yield"
  /\ wpc' = "wait"
  /\ overlap' = WriterStepSeen
  /\ UNCHANGED <<data, ref_count, read_buffer_, write_buffer_, new_value, wi,
                 prev_read_ptr, rvars, terminated, nwrites,
                 written, authv, seen, quiet, retries,
                 pubs, last>>

\* ---- read() ----

\* T read() const is called
ReadCall(r) ==
  /\ ~terminated
  /\ rpc[r] = "idle"
  /\ rpc' = [rpc EXCEPT ![r] = "load"]
  /\ value' = [value EXCEPT ![r] = TestData(NoVal)]
  /\ seen' = [seen EXCEPT ![r] = {authv}]
  /\ quiet' = [quiet EXCEPT ![r] = (wpc = "idle")]
  /\ overlap' = [overlap EXCEPT ![r] = FALSE]
  /\ retries' = [retries EXCEPT ![r] = 0]
  /\ pubs' = [pubs EXCEPT ![r] = 0]
  /\ UNCHANGED <<data, ref_count, read_buffer_, write_buffer_, wvars,
                 read_ptr, ci, terminated, nwrites, written, authv, last>>

\* const Buffer *read_ptr = read_buffer_.load(acquire);
ReadLoad(r) ==
  /\ ~terminated
  /\ rpc[r] = "load"
  /\ read_ptr' = [read_ptr EXCEPT ![r] = read_buffer_]
  /\ rpc' = [rpc EXCEPT ![r] = "inc"]
  /\ UNCHANGED <<data, ref_count, read_buffer_, write_buffer_, wvars,
                 value, ci, terminated, hist>>

\* read_ptr->ref_count.fetch_add(1, relaxed);
ReadInc(r) ==
  /\ ~terminated
  /\ rpc[r] = "inc"
  /\ ref_count' = [ref_count EXCEPT ![read_ptr[r]] = @ + 1]
  /\ rpc' = [rpc EXCEPT ![r] = "check"]
  /\ UNCHANGED <<data, read_buffer_, write_buffer_, wvars,
                 read_ptr, value, ci, terminated, hist>>

\* if (read_ptr != read_buffer_.load(acquire)) ... else the copy begins
ReadCheckInverted(r) ==
  /\ ~terminated
  /\ rpc[r] = "check"
  /\ rpc' = [rpc EXCEPT ![r] = IF read_ptr[r] = read_buffer_ THEN "undo" ELSE "copy"]
  /\ ci' = [ci EXCEPT ![r] = 1]
  /\ UNCHANGED <<data, ref_count, read_buffer_, write_buffer_, wvars,
                 read_ptr, value, terminated, hist>>

ReadCheckSpin(r) ==
  /\ ~terminated
  /\ rpc[r] = "check"
  /\ rpc' = [rpc EXCEPT ![r] = IF read_ptr[r] # read_buffer_ THEN "check" ELSE "copy"]
  /\ ci' = [ci EXCEPT ![r] = 1]
  /\ UNCHANGED <<data, ref_count, read_buffer_, write_buffer_, wvars,
                 read_ptr, value, terminated, hist>>

ReadCheckStale(r) ==
  /\ ~terminated
  /\ rpc[r] = "check"
  /\ rpc' = [rpc EXCEPT ![r] = IF read_ptr[r] # write_buffer_ THEN "undo" ELSE "copy"]
  /\ ci' = [ci EXCEPT ![r] = 1]
  /\ UNCHANGED <<data, ref_count, read_buffer_, write_buffer_, wvars,
                 read_ptr, value, terminated, hist>>

ReadCheck(r) ==
  /\ ~terminated
  /\ rpc[r] = "check"
  /\ rpc' = [rpc EXCEPT ![r] = IF read_ptr[r] # read_buffer_ THEN "undo" ELSE "copy"]
  /\ ci' = [ci EXCEPT ![r] = 1]
  /\ UNCHANGED <<data, ref_count, read_buffer_, write_buffer_, wvars,
                 read_ptr, value, terminated, hist>>

\* the fetch_add is memory_order_relaxed and the re-check is an acquire load
\* of another object: nothing orders the load after the increment, so the
\* load may take its value before the increment is visible to the writer
ReadCheckEarly(r) ==
  /\ ~terminated
  /\ rpc[r] = "inc"
  /\ rpc' = [rpc EXCEPT ![r] = IF read_ptr[r] # read_buffer_ THEN "inc_undo"
                                                             ELSE "inc_copy"]
  /\ UNCHANGED <<data, ref_count, read_buffer_, write_buffer_, wvars,
                 read_ptr, value, ci, terminated, hist>>

\* the delayed fetch_add becomes visible; the branch already taken follows
ReadIncLate(r) ==
  /\ ~terminated
  /\ rpc[r] \in {"inc_undo", "inc_copy"}
  /\ ref_count' = [ref_count EXCEPT ![read_ptr[r]] = @ + 1]
  /\ rpc' = [rpc EXCEPT ![r] = IF rpc[r] = "inc_undo" THEN "undo" ELSE "copy"]
  /\ ci' = [ci EXCEPT ![r] = 1]
  /\ UNCHANGED <<data, read_buffer_, write_buffer_, wvars,
                 read_ptr, value, terminated, hist>>

\* read_ptr->ref_count.fetch_sub(1, relaxed); continue;
ReadUndoNoDec(r) ==
  /\ ~terminated
  /\ rpc[r] = "undo"
  /\ rpc' = [rpc EXCEPT ![r] = "load"]
  /\ retries' = [retries EXCEPT ![r] = @ + 1]
  /\ UNCHANGED <<data, ref_count, read_buffer_, write_buffer_, wvars, read_ptr,
                 value, ci, terminated, nwrites, written, authv, seen,
                 quiet, overlap,
                 pubs, last>>

ReadUndo(r) ==
  /\ ~terminated
  /\ rpc[r] = "undo"
  /\ ref_count' = [ref_count EXCEPT ![read_ptr[r]] = @ - 1]
  /\ rpc' = [rpc EXCEPT ![r] = "load"]
  /\ retries' = [retries EXCEPT ![r] = @ + 1]
  /\ UNCHANGED <<data, read_buffer_, write_buffer_, wvars, read_ptr, value,
                 ci, terminated, nwrites, written, authv, seen,
                 quiet, overlap,
                 pubs, last>>

\* T value = read_ptr->data;   one part per step
ReadCopyOther(r) ==
  /\ ~terminated
  /\ rpc[r] = "copy"
  /\ value' = [value EXCEPT ![r][ci[r]] = data[1 - read_ptr[r]][ci[r]]]
  /\ ci' = [ci EXCEPT ![r] = @ + 1]
  /\ rpc' = [rpc EXCEPT ![r] = IF ci[r] = NumParts THEN "dec" ELSE "copy"]
  /\ UNCHANGED <<data, ref_count, read_buffer_, write_buffer_, wvars,
                 read_ptr, terminated, hist>>

ReadCopy(r) ==
  /\ ~terminated
  /\ rpc[r] = "copy"
  /\ value' = [value EXCEPT ![r][ci[r]] = data[read_ptr[r]][ci[r]]]
  /\ ci' = [ci EXCEPT ![r] = @ + 1]
  /\ rpc' = [rpc EXCEPT ![r] = IF ci[r] = NumParts THEN "dec" ELSE "copy"]
  /\ UNCHANGED <<data, ref_count, read_buffer_, write_buffer_, wvars,
                 read_ptr, terminated, hist>>

\* T's copy constructor throws inside read() noexcept: std::terminate
ReadCopyThrow(r) ==
  /\ ~terminated
  /\ rpc[r] = "copy"
  /\ rpc' = [rpc EXCEPT ![r] = "throw"]
  /\ terminated' = TRUE
  /\ UNCHANGED <<data, ref_count, read_buffer_, write_buffer_, wvars,
                 read_ptr, value, ci, hist>>

\* read_ptr->ref_count.fetch_sub(1, release);
ReadDecCurrent(r) ==
  /\ ~terminated
  /\ rpc[r] = "dec"
  /\ ref_count' = [ref_count EXCEPT ![read_buffer_] = @ - 1]
  /\ rpc' = [rpc EXCEPT ![r] = "ret"]
  /\ UNCHANGED <<data, read_buffer_, write_buffer_, wvars,
                 read_ptr, value, ci, terminated, hist>>

ReadDec(r) ==
  /\ ~terminated
  /\ rpc[r] = "dec"
  /\ ref_count' = [ref_count EXCEPT ![read_ptr[r]] = @ - 1]
  /\ rpc' = [rpc EXCEPT ![r] = "ret"]
  /\ UNCHANGED <<data, read_buffer_, write_buffer_, wvars,
                 read_ptr, value, ci, terminated, hist>>

\* return value;   (the call's locals are gone afterwards)
ReadReturn(r) ==
  /\ ~terminated
  /\ rpc[r] = "ret"
  /\ rpc' = [rpc EXCEPT ![r] = "idle"]
  /\ read_ptr' = [read_ptr EXCEPT ![r] = 0]
  /\ value' = [value EXCEPT ![r] = TestData(NoVal)]
  /\ ci' = [ci EXCEPT ![r] = 1]
  /\ seen' = [seen EXCEPT ![r] = {}]
  /\ quiet' = [quiet EXCEPT ![r] = FALSE]
  /\ overlap' = [overlap EXCEPT ![r] = FALSE]
  /\ retries' = [retries EXCEPT ![r] = 0]
  /\ pubs' = [pubs EXCEPT ![r] = 0]
  /\ UNCHANGED <<data, ref_count, read_buffer_, write_buffer_, wvars,
                 terminated, nwrites, written, authv, last>>

\* return value;   with the number of the returned value recorded
ReadReturnNumbered(r) ==
  /\ ~terminated
  /\ rpc[r] = "ret"
  /\ rpc' = [rpc EXCEPT ![r] = "idle"]
  /\ read_ptr' = [read_ptr EXCEPT ![r] = 0]
  /\ value' = [value EXCEPT ![r] = TestData(NoVal)]
  /\ ci' = [ci EXCEPT ![r] = 1]
  /\ seen' = [seen EXCEPT ![r] = {}]
  /\ quiet' = [quiet EXCEPT ![r] = FALSE]
  /\ overlap' = [overlap EXCEPT ![r] = FALSE]
  /\ retries' = [retries EXCEPT ![r] = 0]
  /\ pubs' = [pubs EXCEPT ![r] = 0]
  /\ last' = [last EXCEPT ![r] =
               IF value[r] = TestData(value[r][1]) /\ value[r][1] > @
                 THEN value[r][1] ELSE @]
  /\ UNCHANGED <<data, ref_count, read_buffer_, write_buffer_, wvars,
                 terminated, nwrites, written, authv>>

\* ---- threads and specifications ----

WriterStep ==
  \/ \E v \in Vals : WriteCall(v)
  \/ WriteStore
  \/ WritePublish
  \/ WriteWait
  \/ WriteYield

ReaderStep(r) ==
  \/ ReadCall(r)
  \/ ReadLoad(r)
  \/ ReadInc(r)
  \/ ReadCheck(r)
  \/ ReadUndo(r)
  \/ ReadCopy(r)
  \/ ReadDec(r)
  \/ ReadReturn(r)

Next ==
  \/ WriterStep
  \/ \E r \in Readers : ReaderStep(r)

\* T's copy does not throw
Spec == Init /\ [][Next]_vars

\* every thread keeps taking steps
FairSpec ==
  /\ Spec
  /\ WF_vars(WriterStep)
  /\ \A r \in Readers : WF_vars(ReaderStep(r))

NextThrow ==
  \/ Next
  \/ \E r \in Readers : ReadCopyThrow(r)

\* T's copy may throw
SpecThrow == Init /\ [][NextThrow]_vars

\* the k-th write() call's argument is k (the constructor's value is 0)
WriterStepNumbered ==
  \/ WriteCall(nwrites + 1)
  \/ WriteStore
  \/ WritePublish
  \/ WriteWait
  \/ WriteYield

ReaderStepNumbered(r) ==
  \/ ReadCall(r)
  \/ ReadLoad(r)
  \/ ReadInc(r)
  \/ ReadCheck(r)
  \/ ReadUndo(r)
  \/ ReadCopy(r)
  \/ ReadDec(r)
  \/ ReadReturnNumbered(r)

NextNumbered ==
  \/ WriterStepNumbered
  \/ \E r \in Readers : ReaderStepNumbered(r)

\* the writes are numbered and each reader's returned numbers are recorded
SpecNumbered == Init /\ [][NextNumbered]_vars

NextRelaxed ==
  \/ Next
  \/ \E r \in Readers : ReadCheckEarly(r)
  \/ \E r \in Readers : ReadIncLate(r)

\* the orders the memory_order arguments of read() allow, beyond the
\* sequentially consistent ones
SpecRelaxed == Init /\ [][NextRelaxed]_vars

\* ---- properties ----

InRead(r) == rpc[r] # "idle"
InWrite == wpc # "idle"

\* r has incremented read_ptr[r]'s count and not yet decremented it
Holds(r, s) == rpc[r] \in {"check", "undo", "copy", "dec"} /\ read_ptr[r] = s

\* r is between its successful re-check and its final decrement
Copying(r, s) == rpc[r] \in {"copy", "dec"} /\ read_ptr[r] = s

\* C1: the value a read() returns is, in all its parts, the constructor's
\* value or the argument of one write() call.
C1_NoTornOrForeignValue ==
  \A r \in Readers :
    rpc[r] = "ret" => \E v \in written \cup {InitValue} : value[r] = TestData(v)

\* C2: the writer is never in the data store of write() on a slot while a
\* reader is between its re-check and its decrement on that slot.
C2_StoreExcludesCopy ==
  ~(wpc = "store" /\ \E r \in Readers : Copying(r, write_buffer_))

\* C3: when a write() call starts, and throughout its data store,
\* write_buffer_ names the slot that read_buffer_ does not name.
C3_PendingIsNotCurrent ==
  wpc \in {"idle", "store"} => write_buffer_ # read_buffer_

\* C4: the value a read() returns was the authoritative value at some
\* instant between the call's first step and its return.
C4_ReadValidityWindow ==
  \A r \in Readers :
    rpc[r] = "ret" => \E v \in seen[r] : value[r] = TestData(v)

C6_WriterProgress == InWrite ~> ~InWrite

StepsToReturn(r) ==
  CASE rpc[r] = "idle" -> 0
    [] rpc[r] = "ret" -> 1
    [] rpc[r] = "dec" -> 2
    [] rpc[r] = "copy" -> 3 + NumParts - ci[r]
    [] rpc[r] = "check" /\ read_ptr[r] = read_buffer_ -> 3 + NumParts
    [] rpc[r] = "inc" /\ read_ptr[r] = read_buffer_ -> 4 + NumParts
    [] rpc[r] = "load" -> 5 + NumParts
    [] rpc[r] = "undo" -> 6 + NumParts
    [] rpc[r] = "check" /\ read_ptr[r] # read_buffer_ -> 7 + NumParts
    [] rpc[r] = "inc" /\ read_ptr[r] # read_buffer_ -> 8 + NumParts

\* C9: wherever the writer stands, a reader inside read() has a step to take,
\* and every step it takes (each one moves its position in read()) leaves it
\* strictly fewer steps from its return (only a writer step can add to them): a reader that keeps taking steps
\* while the writer takes none returns.
C9_ReadersNeverWaitOnWriter ==
  /\ [](\A r \in Readers : InRead(r) => ENABLED <<ReaderStep(r)>>_vars)
  /\ [][\A r \in Readers :
          (InRead(r) /\ (rpc'[r] # rpc[r] \/ ci'[r] # ci[r])) =>
            StepsToReturn(r)' < StepsToReturn(r)]_vars

\* a read() that had to retry has returned although the writer stands in the
\* wait loop of write()
C9_Witness ==
  \E r \in Readers :
    /\ rpc[r] = "ret" /\ retries[r] > 0
    /\ wpc \in {"wait", "yield"}

\* C10: when the copy in read() has thrown, the count that read() incremented
\* has been decremented again: the slot's count is the number of the other
\* readers holding it.
C10_CountRestoredAfterThrow ==
  \A r \in Readers :
    rpc[r] = "throw" =>
      ref_count[read_ptr[r]] =
        Cardinality({q \in Readers \ {r} : Holds(q, read_ptr[r])})

C12_CurrentAlternates ==
  /\ read_buffer_ \in Slots
  /\ wpc \in {"wait", "yield"} => prev_read_ptr # read_buffer_
  /\ wpc = "idle" => read_buffer_ = nwrites % 2

C15_Frame ==
  /\ [][/\ rvars' # rvars => UNCHANGED <<data, read_buffer_, write_buffer_>>
        /\ wvars' # wvars => UNCHANGED ref_count
        /\ (data' # data \/ read_buffer_' # read_buffer_) => wvars' # wvars]_vars
  /\ [](\A r \in Readers : \A s \in Slots :
          rpc[r] = "ret" =>
            ref_count[s] = Cardinality({q \in Readers \ {r} : Holds(q, s)}))

\* a read() that went through the retry path and the copy is about to return,
\* after the writer published
C15_Witness ==
  \E r \in Readers : rpc[r] = "ret" /\ retries[r] > 0 /\ nwrites >= 1

\* C16: with the k-th write's argument k, no part of the value a read()
\* returns is older than a whole value an earlier read() of the same thread
\* returned; so a later read never returns a lower number than an earlier one.
C16_MonotonicReads ==
  \A r \in Readers :
    rpc[r] = "ret" => \A p \in Parts : value[r][p] >= last[r]

\* a reader that returned value 1 earlier is about to return value 2
C16_Witness ==
  \E r \in Readers : rpc[r] = "ret" /\ last[r] = 1 /\ value[r] = TestData(2)

\* r's re-check saw slot s as current and r has not finished copying from it
PassedCheck(r, s) == rpc[r] \in {"inc_copy", "copy", "dec"} /\ read_ptr[r] = s

\* C17: under the orders the code's memory_order arguments allow, the wait
\* loop of write() never reads count 0 on the slot it displaced while a reader
\* whose re-check saw that slot as current has still to copy from it.
C17_HandshakeOrdering ==
  [][(WriteWait /\ wpc' = "idle" /\ prev_read_ptr # read_buffer_) =>
        ~(\E r \in Readers : PassedCheck(r, prev_read_ptr))]_vars

====
